---- MODULE Spec2Model ----
(***************************************************************************)
(* Section detection, batch merge, boundary repair and the confidence      *)
(* gate of the PDF-to-JSON pipeline (src/src/agents/section_detector.py,   *)
(* src/src/agents/validator.py, src/src/agents/validator_docuporter.py,    *)
(* src/src/pipeline.py), the confidence score of an extracted section      *)
(* (src/src/agents/section_extractor.py) and the stores and the review     *)
(* decisions of src/src/utils/storage.py.                                  *)
(*                                                                         *)
(* Confidences are integers in hundredths (0.85 is 85).  A mean is never   *)
(* divided out: "mean < t" is checked as "sum < t * count".                *)
(***************************************************************************)
EXTENDS Integers, Sequences, FiniteSets, TLC

VARIABLES
    pc,               \* position of the modelled run
    total_pages,      \* len(pages_data)
    batch_idx,        \* loop variable of _detect_multi_batch
    batch_sections,   \* list built by _detect_multi_batch, kept as returned by the batch calls
    merge_groups,     \* history: for each merged section, the sorted-list positions it absorbed
    merged_sections,  \* value returned by _merge_batch_sections
    sections,         \* value returned by detect_sections
    detection_store,  \* DETECTION_DIR: TRUE once save_detection_result wrote the file
    response,         \* history: the parsed model reply of the last batch call
    raw_responses,    \* history: the text invoke_bedrock_multimodal returned, per batch call
    section_jsons,    \* list handed to validate_and_combine
    extract_calls,    \* number of extract_section calls made
    ext_log,          \* history: per section, how each of its extract_section calls ended
    validate_calls,   \* number of validate_and_combine calls made
    final_store,      \* FINAL_DIR: sequence of documents written by save_final_json
    review_queue,     \* VALIDATION_QUEUE_DIR: sequence of entries written by queue_for_validation
    document_metadata,\* keys of the document_metadata handed to validate_and_combine
    validator,        \* class of the validator whose validate_and_combine is called
    needs_review,     \* needs_review as computed by the last validate_and_combine
    parallel,         \* argument parallel of process_single_pdf
    ext_idx,          \* position of _extract_sections_non_parallel in sections
    counter,          \* retry counter of _extract_sections_non_parallel
    pending,          \* futures of _extract_sections_parallel not yet completed
    v_sections,       \* argument of _validate_sections
    v_once,           \* _validate_sections(v_sections, total_pages)
    v_twice,          \* _validate_sections applied to v_once again
    max_retries,      \* argument max_retries of invoke_with_retry
    attempt,          \* loop variable of invoke_with_retry
    invoke_log,       \* history: how each attempt of invoke_with_retry ended
    invoke_result,    \* how invoke_with_retry ended: what it returned or raised
    pdf_paths,        \* argument pdf_paths of process_batch
    resume,           \* argument resume of process_batch
    remaining,        \* local remaining of process_batch
    doc_i,            \* position of the loop of process_batch in remaining
    completed,        \* local set completed of process_batch
    failed,           \* local list failed of process_batch
    results,          \* dict results of process_batch
    progress_file,    \* content of PROGRESS_FILE
    batch_log,        \* history: how process_single_pdf ended for each document of remaining
    section_store,    \* SECTIONS_DIR: file name -> content written by save_section_json
    fuller,           \* an extracted_data value handed to calculate_confidence_score
    emptier,          \* fuller with some of its fields or items emptied
    fuller_confidence,  \* calculate_confidence_score(fuller, section_type)[0]
    emptier_confidence  \* calculate_confidence_score(emptier, section_type)[0]

vars == <<pc, total_pages, batch_idx, batch_sections, merge_groups,
          merged_sections, sections, detection_store, response, raw_responses,
          section_jsons, extract_calls, ext_log, validate_calls, final_store, review_queue, document_metadata,
          validator, needs_review, parallel, ext_idx, counter, pending,
          v_sections, v_once, v_twice,
          max_retries, attempt, invoke_log, invoke_result,
          pdf_paths, resume, remaining, doc_i, completed, failed, results,
          progress_file, batch_log,
          section_store, fuller, emptier, fuller_confidence, emptier_confidence>>

detectVars == <<total_pages, batch_idx, batch_sections, merge_groups,
                merged_sections, sections, detection_store, response, raw_responses>>
extractVars == <<parallel, ext_idx, counter, pending, extract_calls, ext_log, section_store>>
gateVars == <<validate_calls, final_store, review_queue, document_metadata, validator,
              needs_review>>
pipeVars == <<section_jsons, extractVars, gateVars>>
repairVars == <<v_sections, v_once, v_twice>>
retryVars == <<max_retries, attempt, invoke_log, invoke_result>>
batchVars == <<pdf_paths, resume, remaining, doc_i, completed, failed, results,
               progress_file, batch_log>>
\* what a run of the pipeline, the detector or the gate leaves alone
scoreVars == <<fuller, emptier, fuller_confidence, emptier_confidence>>
restVars == <<repairVars, retryVars, batchVars, scoreVars>>

----------------------------------------------------------------------------
(* Bounds of the model *)

\* candidates in all model replies of one document (detector runs)
MaxCands == 3
\* candidates in all model replies of one document (whole-pipeline runs)
MaxDocCands == 1
\* candidates in all model replies of one document (runs on reply texts)
MaxTextCands == 2
\* sections of a detected document (extraction runs)
MaxExtractLen == 2
\* largest max_retries handed to invoke_with_retry
MaxRetriesArg == 3
\* documents handed to process_batch
MaxFields == 2
MaxFinalWrites == 2
MaxOrderedCands == 2
MaxPages == 41
MaxMergeCands == 3
MaxBatchDocs == 2
\* full batches before the last batch of a document
MaxFullBatches == 1
\* pages of the last batch of a document
MaxTail == 1
\* entries of a list handed to _validate_sections
MaxRepairLen == 3
\* largest page number in such a list, and largest page count it is repaired to
MaxRepairPage == 2
\* sections of a document handed to validate_and_combine (gate runs)
MaxGateLen == 2

(* Program constants *)

MAX_IMAGES_PER_CALL == 20
DEFAULT_MERGE_CONFIDENCE == 80
CONFIDENCE_THRESHOLD == 85
LOW_CONFIDENCE_THRESHOLD == 70
DEFAULT_SECTION_CONFIDENCE == 50
RETRY_COUNTER == 3

\* keys process_single_pdf puts into document_metadata that the structure check reads
PipelineMetadata == {"total_pages", "processing_timestamp"}

----------------------------------------------------------------------------
(* Values *)

\* Python's None and a list, kept apart so that both compare
None == [is_none |-> TRUE, list |-> <<>>]
Some(l) == [is_none |-> FALSE, list |-> l]

\* a dict without the key 'confidence'
NoConfidence == -1

\* JSON values as json.loads builds them.  A dict is kept as the sequence of
\* the values of its fields: check_dict_empty never reads the keys
Null == [type |-> "null", str |-> "", kids |-> <<>>]
Str(s) == [type |-> "str", str |-> s, kids |-> <<>>]
List(items) == [type |-> "list", str |-> "", kids |-> items]
Dict(values) == [type |-> "dict", str |-> "", kids |-> values]

\* a confidence as the exact fraction num / (100 * den)
Fraction(n, d) == [num |-> n, den |-> d]
NotScored == Fraction(-1, 1)

Max(a, b) == IF a >= b THEN a ELSE b
Min(a, b) == IF a <= b THEN a ELSE b

\* (section_name, section_type) pairs the model replies use
CandLabels == { <<"SAFETY", "safety">>,
                <<"SAFETY", "general">>,
                <<"Task Activities", "task_activities">> }

Candidate(label, sp, ep) ==
    [section_name |-> label[1], section_type |-> label[2],
     start_page |-> sp, end_page |-> ep, confidence |-> DEFAULT_MERGE_CONFIDENCE]

\* page counts: b full batches followed by a last batch of t pages
TotalPagesChoices ==
    { b * MAX_IMAGES_PER_CALL + t : b \in 0..MaxFullBatches, t \in 1..MaxTail }

\* parsed replies of at most k candidates whose pages are drawn from starts/ends
Replies(starts, ends, k) ==
    LET cands == { Candidate(l, sp, ep) : l \in CandLabels, sp \in starts, ep \in ends }
    IN  UNION { [1..n -> cands] : n \in 0..k }

\* page numbers a reply uses for a batch [s, e]: a start_page before the batch or
\* on its last page, an end_page on its first page or after the batch
ReplyStarts(s, e) == {s - 1, e}
ReplyEnds(s, e) == {s, e + 1}

----------------------------------------------------------------------------
(* _detect_multi_batch: batch arithmetic *)

\* as num_batches, but rounding down
num_batchesFloor(n) == n \div MAX_IMAGES_PER_CALL

num_batches(n) == (n + MAX_IMAGES_PER_CALL - 1) \div MAX_IMAGES_PER_CALL
BatchStartPage(b) == b * MAX_IMAGES_PER_CALL + 1
BatchEndPage(b, n) == Min(b * MAX_IMAGES_PER_CALL + MAX_IMAGES_PER_CALL, n)

(* _detect_batch_sections: the clamp loop over the parsed reply *)

ClampSectionNoUpper(sec, start_page, end_page) ==
    [sec EXCEPT !.start_page = IF @ < start_page THEN start_page ELSE @]

ClampSection(sec, start_page, end_page) ==
    [sec EXCEPT !.start_page = IF @ < start_page THEN start_page ELSE @,
                !.end_page = IF @ > end_page THEN end_page ELSE @]

ClampSections(reply, start_page, end_page) ==
    [i \in 1..Len(reply) |-> ClampSection(reply[i], start_page, end_page)]

----------------------------------------------------------------------------
(* sorted(..., key=start_page): stable *)

RECURSIVE InsertByStart(_, _)
InsertByStart(sorted, x) ==
    IF sorted = <<>> THEN <<x>>
    ELSE IF sorted[Len(sorted)].start_page <= x.start_page
         THEN Append(sorted, x)
         ELSE Append(InsertByStart(SubSeq(sorted, 1, Len(sorted) - 1), x),
                     sorted[Len(sorted)])

RECURSIVE SortByStart(_)
SortByStart(s) ==
    IF s = <<>> THEN <<>>
    ELSE InsertByStart(SortByStart(SubSeq(s, 1, Len(s) - 1)), s[Len(s)])

----------------------------------------------------------------------------
(* _merge_batch_sections *)

RECURSIVE Concat(_)
Concat(ss) == IF ss = <<>> THEN <<>> ELSE Head(ss) \o Concat(Tail(ss))

CollectAllSections(bs) == Concat([i \in 1..Len(bs) |-> bs[i].sections])

ShouldMergeNameOnly(cur, nxt) ==
    /\ cur.section_name = nxt.section_name
    /\ cur.section_type = nxt.section_type

ShouldMergeOverlapOnly(cur, nxt) ==
    /\ cur.section_name = nxt.section_name
    /\ cur.section_type = nxt.section_type
    /\ cur.end_page >= nxt.start_page

ShouldMerge(cur, nxt) ==
    /\ cur.section_name = nxt.section_name
    /\ cur.section_type = nxt.section_type
    /\ cur.end_page >= nxt.start_page - 1

\* section.get('confidence', 0.8)
MergeConfidenceOf(sec) ==
    IF sec.confidence = NoConfidence THEN DEFAULT_MERGE_CONFIDENCE ELSE sec.confidence

\* as MergeInto, but end_page is taken from the next section
MergeIntoLastEnd(cur, nxt) ==
    [cur EXCEPT !.end_page = nxt.end_page,
                !.confidence = (MergeConfidenceOf(cur) + MergeConfidenceOf(nxt)) \div 2]

\* lines 282-290.  The candidates of the model carry confidences that are
\* multiples of 0.16, so that a few halvings stay whole hundredths
MergeInto(cur, nxt) ==
    [cur EXCEPT !.end_page = Max(cur.end_page, nxt.end_page),
                !.confidence = (MergeConfidenceOf(cur) + MergeConfidenceOf(nxt)) \div 2]

\* the walk of lines 265-295 from position i on; cur is current_section,
\* group the sorted-list positions merged into it so far
RECURSIVE MergeWalk(_, _, _, _, _)
MergeWalk(sorted, i, cur, group, out) ==
    IF i > Len(sorted)
    THEN [merged |-> Append(out.merged, cur), groups |-> Append(out.groups, group)]
    ELSE IF ShouldMerge(cur, sorted[i])
         THEN MergeWalk(sorted, i + 1, MergeInto(cur, sorted[i]), group \cup {i}, out)
         ELSE MergeWalk(sorted, i + 1, sorted[i], {i},
                        [merged |-> Append(out.merged, cur),
                         groups |-> Append(out.groups, group)])

MergeSorted(sorted) ==
    MergeWalk(sorted, 2, sorted[1], {1}, [merged |-> <<>>, groups |-> <<>>])

MergeBatchSections(bs) ==
    LET all == CollectAllSections(bs)
    IN  IF all = <<>> THEN None ELSE Some(MergeSorted(SortByStart(all)).merged)

MergeBatchGroups(bs) ==
    LET all == CollectAllSections(bs)
    IN  IF all = <<>> THEN <<>> ELSE MergeSorted(SortByStart(all)).groups

----------------------------------------------------------------------------
(* detect_sections *)

\* nothing detected, extracted, validated or repaired yet
DetectIdle ==
    /\ batch_idx = 0
    /\ batch_sections = <<>>
    /\ merge_groups = <<>>
    /\ merged_sections = None
    /\ sections = None
    /\ detection_store = FALSE
    /\ response = <<>>
    /\ raw_responses = <<>>

ExtractIdle ==
    /\ ext_idx = 1
    /\ counter = RETRY_COUNTER
    /\ pending = {}
    /\ extract_calls = 0
    /\ ext_log = <<>>
    /\ section_store = <<>>

GateIdle ==
    /\ validate_calls = 0
    /\ final_store = <<>>
    /\ review_queue = <<>>
    /\ needs_review = FALSE

\* calculate_confidence_score not called
ScoreIdle ==
    /\ fuller = Null
    /\ emptier = Null
    /\ fuller_confidence = NotScored
    /\ emptier_confidence = NotScored

RepairIdle ==
    /\ v_sections = <<>>
    /\ v_once = None
    /\ v_twice = None

\* invoke_with_retry not called
RetryIdle ==
    /\ max_retries = 0
    /\ attempt = 0
    /\ invoke_log = <<>>
    /\ invoke_result = [kind |-> "running", value |-> "none"]

\* process_batch not called, no progress file
BatchIdle ==
    /\ pdf_paths = <<>>
    /\ resume = FALSE
    /\ remaining = <<>>
    /\ doc_i = 0
    /\ completed = {}
    /\ failed = <<>>
    /\ results = [completed |-> <<>>, failed |-> <<>>, counts |-> <<>>]
    /\ progress_file = [completed |-> {}, failed |-> <<>>]
    /\ batch_log = <<>>

DetectInit ==
    /\ total_pages \in TotalPagesChoices
    /\ DetectIdle

CandsSoFar == Len(CollectAllSections(batch_sections))

\* one pass of the loop of _detect_multi_batch: _detect_batch_sections returns
DetectBatch(cap) ==
    /\ pc = "detect"
    /\ batch_idx < num_batches(total_pages)
    /\ LET start_page == BatchStartPage(batch_idx)
           end_page == BatchEndPage(batch_idx, total_pages)
       IN  \E reply \in Replies(ReplyStarts(start_page, end_page), ReplyEnds(start_page, end_page),
                                cap - CandsSoFar) :
              /\ response' = reply
              /\ batch_sections' = Append(batch_sections,
                     [batch_idx |-> batch_idx, start_page |-> start_page,
                      end_page |-> end_page,
                      sections |-> ClampSections(reply, start_page, end_page)])
    /\ batch_idx' = batch_idx + 1
    /\ UNCHANGED <<pc, total_pages, merge_groups, merged_sections,
                   sections, detection_store, raw_responses>>

\* invoke_bedrock_multimodal, _parse_detection_response or the clamp loop raises:
\* the exception leaves _detect_multi_batch and detect_sections returns None
DetectBatchRaises ==
    /\ pc = "detect"
    /\ batch_idx < num_batches(total_pages)
    /\ pc' = "returned"
    /\ sections' = None
    /\ batch_sections' = <<>>
    /\ response' = <<>>
    /\ UNCHANGED <<total_pages, batch_idx, merge_groups, merged_sections,
                   detection_store, raw_responses>>

\* as MergeBatches, but the loop stops one batch short
MergeBatchesEarly ==
    /\ pc = "detect"
    /\ batch_idx >= num_batches(total_pages) - 1
    /\ pc' = "merged"
    /\ merge_groups' = MergeBatchGroups(batch_sections)
    /\ merged_sections' = MergeBatchSections(batch_sections)
    /\ response' = <<>>
    /\ UNCHANGED <<total_pages, batch_idx, batch_sections, sections, detection_store,
                   raw_responses>>

\* the loop is over: _merge_batch_sections runs on all batches
MergeBatches ==
    /\ pc = "detect"
    /\ batch_idx = num_batches(total_pages)
    /\ pc' = "merged"
    /\ merge_groups' = MergeBatchGroups(batch_sections)
    /\ merged_sections' = MergeBatchSections(batch_sections)
    /\ response' = <<>>
    /\ UNCHANGED <<total_pages, batch_idx, batch_sections, sections, detection_store,
                   raw_responses>>

\* _create_default_section
CreateDefaultSection(n) ==
    << [section_type |-> "general", section_name |-> "Untitled Section [page 1]",
        start_page |-> 1, end_page |-> n, confidence |-> 50] >>

DetectReturnValueWithFallback(merged, n) ==
    IF merged.is_none THEN Some(CreateDefaultSection(n)) ELSE merged

\* detect_sections lines 111-121 once _detect_multi_batch returned merged:
\* save_detection_result evaluates len(sections) before it opens the file, so
\* None raises there, the handler of line 119 catches it and None is returned
DetectReturnValue(merged, n) ==
    IF merged.is_none THEN None ELSE merged

DetectReturn ==
    /\ pc = "merged"
    /\ pc' = "returned"
    /\ sections' = DetectReturnValue(merged_sections, total_pages)
    /\ detection_store' = ~merged_sections.is_none
    /\ UNCHANGED <<total_pages, batch_idx, batch_sections, merge_groups,
                   merged_sections, response, raw_responses>>

----------------------------------------------------------------------------
(* _merge_batch_sections on the candidates of one batch *)

\* confidences of the candidates: none given, 0.64, 0.96
MergeConfidences == {NoConfidence, 64, 96}

\* page ranges of the candidates, as the clamp of a batch over pages 1..4
\* leaves them: a single page, a range containing the next one, a page after a gap
MergePageRanges == {<<1, 1>>, <<1, 3>>, <<2, 2>>, <<4, 4>>}

\* two sections of one name and different types
MergeLabels == {<<"SAFETY", "safety">>, <<"SAFETY", "general">>}

MergeCandidates ==
    {[Candidate(l, r[1], r[2]) EXCEPT !.confidence = c] :
        l \in MergeLabels, r \in MergePageRanges, c \in MergeConfidences}

\* _detect_multi_batch has collected the one batch of a four-page document
InitMerge ==
    /\ pc = "detect"
    /\ total_pages = 4
    /\ batch_idx = num_batches(total_pages)
    /\ \E n \in 0..MaxMergeCands : \E reply \in [1..n -> MergeCandidates] :
          batch_sections = << [batch_idx |-> 0, start_page |-> BatchStartPage(0),
                               end_page |-> BatchEndPage(0, total_pages),
                               sections |-> reply] >>
    /\ merge_groups = <<>>
    /\ merged_sections = None
    /\ sections = None
    /\ detection_store = FALSE
    /\ response = <<>>
    /\ raw_responses = <<>>
    /\ parallel = FALSE
    /\ section_jsons = <<>>
    /\ ExtractIdle
    /\ GateIdle
    /\ ScoreIdle
    /\ document_metadata = PipelineMetadata
    /\ validator = "ValidationAgent"
    /\ RepairIdle
    /\ RetryIdle
    /\ BatchIdle

NextMerge ==
    \/ MergeBatches /\ UNCHANGED pipeVars /\ UNCHANGED restVars
    \/ DetectReturn /\ UNCHANGED pipeVars /\ UNCHANGED restVars

SpecMerge == InitMerge /\ [][NextMerge]_vars

----------------------------------------------------------------------------
(* _detect_multi_batch on documents of every length up to MaxPages, the model
   replying with no candidate *)

InitBatches ==
    /\ pc = "detect"
    /\ total_pages \in 1..MaxPages
    /\ DetectIdle
    /\ parallel = FALSE
    /\ section_jsons = <<>>
    /\ ExtractIdle
    /\ GateIdle
    /\ ScoreIdle
    /\ document_metadata = PipelineMetadata
    /\ validator = "ValidationAgent"
    /\ RepairIdle
    /\ RetryIdle
    /\ BatchIdle

NextBatches ==
    \/ DetectBatch(0) /\ UNCHANGED pipeVars /\ UNCHANGED restVars
    \/ DetectBatchRaises /\ UNCHANGED pipeVars /\ UNCHANGED restVars
    \/ MergeBatches /\ UNCHANGED pipeVars /\ UNCHANGED restVars
    \/ DetectReturn /\ UNCHANGED pipeVars /\ UNCHANGED restVars

SpecBatches == InitBatches /\ [][NextBatches]_vars

----------------------------------------------------------------------------
(* Detector runs *)

InitDetect ==
    /\ pc = "detect"
    /\ DetectInit
    /\ parallel = FALSE
    /\ section_jsons = <<>>
    /\ ExtractIdle
    /\ GateIdle
    /\ ScoreIdle
    /\ document_metadata = PipelineMetadata
    /\ validator = "ValidationAgent"
    /\ RepairIdle
    /\ RetryIdle
    /\ BatchIdle

NextDetect ==
    \/ DetectBatch(MaxCands) /\ UNCHANGED pipeVars /\ UNCHANGED restVars
    \/ DetectBatchRaises /\ UNCHANGED pipeVars /\ UNCHANGED restVars
    \/ MergeBatches /\ UNCHANGED pipeVars /\ UNCHANGED restVars
    \/ DetectReturn /\ UNCHANGED pipeVars /\ UNCHANGED restVars

SpecDetect == InitDetect /\ [][NextDetect]_vars

----------------------------------------------------------------------------
(* The text of a model reply, as a sequence of tokens.  A JSON object is one
   token carrying the candidate it spells out. *)

Tok(kind) == [kind |-> kind, value |-> <<>>]
Obj(c) == [kind |-> "object", value |-> <<c>>]

WS == Tok("ws")
\* three backticks followed by json, and three backticks alone
FenceJson == Tok("fence_json")
Fence == Tok("fence")
LBracket == Tok("[")
RBracket == Tok("]")
Comma == Tok(",")
Prose == Tok("text")

\* str.strip()
RECURSIVE LStrip(_)
LStrip(t) == IF t # <<>> /\ Head(t) = WS THEN LStrip(Tail(t)) ELSE t

RECURSIVE RStrip(_)
RStrip(t) ==
    IF t # <<>> /\ t[Len(t)] = WS THEN RStrip(SubSeq(t, 1, Len(t) - 1)) ELSE t

Strip(t) == RStrip(LStrip(t))

\* lines 391-396: the three fence tests, one after the other.  The json fence
\* also starts with the plain one, so a second json fence loses its backticks only
StripFences(t) ==
    LET a == IF t # <<>> /\ Head(t) = FenceJson THEN Tail(t) ELSE t
        b == IF a # <<>> /\ Head(a) = Fence THEN Tail(a)
             ELSE IF a # <<>> /\ Head(a) = FenceJson THEN <<Prose>> \o Tail(a)
             ELSE a
    IN  IF b # <<>> /\ b[Len(b)] = Fence THEN SubSeq(b, 1, Len(b) - 1) ELSE b

\* the elements of a JSON array between its brackets: values separated by
\* single commas, no comma after the last one
IsArrayBody(u) ==
    \/ u = <<>>
    \/ /\ Len(u) % 2 = 1
       /\ \A i \in 1..Len(u) :
             IF i % 2 = 1 THEN u[i].kind = "object" ELSE u[i] = Comma

\* json.loads: whitespace between tokens is skipped; anything but one JSON
\* value is a JSONDecodeError
JsonLoads(t) ==
    LET NotWS(x) == x # WS
        u == SelectSeq(t, NotWS)
        IsObject(x) == x.kind = "object"
        objs == SelectSeq(u, IsObject)
    IN  IF /\ Len(u) >= 2
           /\ u[1] = LBracket
           /\ u[Len(u)] = RBracket
           /\ IsArrayBody(SubSeq(u, 2, Len(u) - 1))
        THEN [error |-> FALSE, is_list |-> TRUE,
              value |-> [i \in 1..Len(objs) |-> objs[i].value[1]]]
        ELSE IF Len(u) = 1 /\ u[1].kind = "object"
             THEN [error |-> FALSE, is_list |-> FALSE, value |-> <<>>]
             ELSE [error |-> TRUE, is_list |-> FALSE, value |-> <<>>]

\* _parse_detection_response: the JSONDecodeError is logged and re-raised, the
\* ValueError for a value that is not a list is not caught at all
ParseDetectionResponse(text) ==
    LET loaded == JsonLoads(Strip(StripFences(Strip(text))))
    IN  IF loaded.error \/ ~loaded.is_list
        THEN [raises |-> TRUE, sections |-> <<>>]
        ELSE [raises |-> FALSE, sections |-> loaded.value]

(* Texts the model returns for a reply of the given candidates *)

RECURSIVE JoinObjects(_)
JoinObjects(items) ==
    IF items = <<>> THEN <<>>
    ELSE IF Len(items) = 1 THEN <<Obj(items[1])>>
    ELSE <<Obj(items[1]), Comma, WS>> \o JoinObjects(Tail(items))

ArrayText(items) == <<LBracket>> \o JoinObjects(items) \o <<RBracket>>

TrailingCommaArrayText(items) ==
    <<LBracket>> \o JoinObjects(items) \o <<Comma, WS, RBracket>>

Fenced(t) == <<FenceJson, WS>> \o t \o <<WS, Fence>>

\* the clean array; the same in a json fence; the fenced array with a comma
\* after its last element; no output at all; prose instead of JSON; a single
\* JSON object instead of an array
ResponseTexts(items) ==
    {ArrayText(items), Fenced(ArrayText(items)), <<>>, <<Prose>>}
      \cup (IF items = <<>> THEN {}
            ELSE {Fenced(TrailingCommaArrayText(items)), <<Obj(items[1])>>})

\* one pass of the loop of _detect_multi_batch, from the text the model call
\* returned: parsed and clamped, or the exception of _parse_detection_response
\* leaving _detect_multi_batch so that detect_sections returns None
DetectBatchText(cap) ==
    /\ pc = "detect"
    /\ batch_idx < num_batches(total_pages)
    /\ LET start_page == BatchStartPage(batch_idx)
           end_page == BatchEndPage(batch_idx, total_pages)
       IN  \E items \in Replies(ReplyStarts(start_page, end_page),
                                ReplyEnds(start_page, end_page), cap - CandsSoFar) :
           \E text \in ResponseTexts(items) :
              LET parsed == ParseDetectionResponse(text)
              IN  /\ raw_responses' = Append(raw_responses, text)
                  /\ IF parsed.raises
                     THEN /\ pc' = "returned"
                          /\ sections' = None
                          /\ batch_sections' = <<>>
                          /\ response' = <<>>
                          /\ UNCHANGED batch_idx
                     ELSE /\ response' = parsed.sections
                          /\ batch_sections' = Append(batch_sections,
                                 [batch_idx |-> batch_idx, start_page |-> start_page,
                                  end_page |-> end_page,
                                  sections |-> ClampSections(parsed.sections,
                                                             start_page, end_page)])
                          /\ batch_idx' = batch_idx + 1
                          /\ UNCHANGED <<pc, sections>>
    /\ UNCHANGED <<total_pages, merge_groups, merged_sections, detection_store>>

(* Detector runs on reply texts *)

NextText ==
    \/ DetectBatchText(MaxTextCands) /\ UNCHANGED pipeVars /\ UNCHANGED restVars
    \/ MergeBatches /\ UNCHANGED pipeVars /\ UNCHANGED restVars
    \/ DetectReturn /\ UNCHANGED pipeVars /\ UNCHANGED restVars

SpecText == InitDetect /\ [][NextText]_vars

----------------------------------------------------------------------------
(* Detector runs on replies whose candidates all have start_page <= end_page *)

\* page ranges such a reply uses for a batch [s, e]: the page before the
\* batch, the batch itself, the page after it, and all of them
OrderedRanges(s, e) == {<<s - 1, s - 1>>, <<s, e>>, <<e + 1, e + 1>>, <<s - 1, e + 1>>}

OrderedReplies(s, e, k) ==
    LET cands == { Candidate(l, r[1], r[2]) : l \in CandLabels, r \in OrderedRanges(s, e) }
    IN  UNION { [1..n -> cands] : n \in 0..k }

\* one pass of the loop of _detect_multi_batch: the model call returns a clean
\* JSON array, _parse_detection_response parses it and the clamp loop runs
DetectBatchOrdered(cap) ==
    /\ pc = "detect"
    /\ batch_idx < num_batches(total_pages)
    /\ LET start_page == BatchStartPage(batch_idx)
           end_page == BatchEndPage(batch_idx, total_pages)
       IN  \E items \in OrderedReplies(start_page, end_page, cap - CandsSoFar) :
              LET text == ArrayText(items)
                  parsed == ParseDetectionResponse(text)
              IN  /\ raw_responses' = Append(raw_responses, text)
                  /\ response' = parsed.sections
                  /\ batch_sections' = Append(batch_sections,
                         [batch_idx |-> batch_idx, start_page |-> start_page,
                          end_page |-> end_page,
                          sections |-> ClampSections(parsed.sections,
                                                     start_page, end_page)])
    /\ batch_idx' = batch_idx + 1
    /\ UNCHANGED <<pc, total_pages, merge_groups, merged_sections,
                   sections, detection_store>>

NextOrdered ==
    \/ DetectBatchOrdered(MaxOrderedCands) /\ UNCHANGED pipeVars /\ UNCHANGED restVars
    \/ MergeBatches /\ UNCHANGED pipeVars /\ UNCHANGED restVars
    \/ DetectReturn /\ UNCHANGED pipeVars /\ UNCHANGED restVars

SpecOrdered == InitDetect /\ [][NextOrdered]_vars

----------------------------------------------------------------------------
(* _validate_sections *)

SetFirstStart(secs) ==
    IF secs[1].start_page # 1 THEN [secs EXCEPT ![1].start_page = 1] ELSE secs

SetLastEnd(secs, n) ==
    IF secs[Len(secs)].end_page # n THEN [secs EXCEPT ![Len(secs)].end_page = n] ELSE secs

\* one pass of the loop body of lines 440-459 on (sections[i], sections[i + 1])
FixPair(cur, nxt) ==
    LET gapFixed == IF cur.end_page < nxt.start_page - 1
                    THEN [cur EXCEPT !.end_page = nxt.start_page - 1]
                    ELSE cur
    IN  IF gapFixed.end_page >= nxt.start_page
        THEN [gapFixed EXCEPT !.end_page = nxt.start_page - 1]
        ELSE gapFixed

\* the loop only ever writes sections[i].end_page and reads sections[i + 1].start_page
FixGapsAndOverlaps(secs) ==
    [i \in 1..Len(secs) |->
        IF i < Len(secs) THEN FixPair(secs[i], secs[i + 1]) ELSE secs[i]]

ValidateSections(secs, n) ==
    IF secs = <<>> THEN None
    ELSE Some(FixGapsAndOverlaps(SetLastEnd(SetFirstStart(SortByStart(secs)), n)))

(* Repair runs: _validate_sections applied once, then again to its own result *)

RepairInputs ==
    UNION { [1..n -> [section_name : {"SAFETY", "Task Activities"}, section_type : {"general"},
                      start_page : 0..MaxRepairPage, end_page : 0..MaxRepairPage,
                      confidence : {DEFAULT_MERGE_CONFIDENCE}]]
            : n \in 1..MaxRepairLen }

InitRepair ==
    /\ pc = "repair"
    /\ total_pages \in 1..MaxRepairPage
    /\ v_sections \in RepairInputs
    /\ v_once = None
    /\ v_twice = None
    /\ DetectIdle
    /\ parallel = FALSE
    /\ section_jsons = <<>>
    /\ ExtractIdle
    /\ GateIdle
    /\ ScoreIdle
    /\ document_metadata = PipelineMetadata
    /\ validator = "ValidationAgent"
    /\ RetryIdle
    /\ BatchIdle

ValidateOnce ==
    /\ pc = "repair"
    /\ pc' = "repaired"
    /\ v_once' = ValidateSections(v_sections, total_pages)
    /\ UNCHANGED <<v_sections, v_twice>>

ValidateAgain ==
    /\ pc = "repaired"
    /\ pc' = "repaired_twice"
    /\ v_twice' = ValidateSections(v_once.list, total_pages)
    /\ UNCHANGED <<v_sections, v_once>>

NextRepair ==
    \/ ValidateOnce /\ UNCHANGED detectVars /\ UNCHANGED pipeVars
                    /\ UNCHANGED retryVars /\ UNCHANGED batchVars /\ UNCHANGED scoreVars
    \/ ValidateAgain /\ UNCHANGED detectVars /\ UNCHANGED pipeVars
                     /\ UNCHANGED retryVars /\ UNCHANGED batchVars /\ UNCHANGED scoreVars

SpecRepair == InitRepair /\ [][NextRepair]_vars

----------------------------------------------------------------------------
(* validate_document_structure, for the document_json validate_and_combine builds:
   document_id, metadata and sections are always present, sections is a list
   and metadata a dict *)

\* s.get('_metadata', {}).get('confidence', 0.5)
ConfidenceOf(sj) ==
    IF sj.has_metadata /\ sj.confidence # NoConfidence
    THEN sj.confidence
    ELSE DEFAULT_SECTION_CONFIDENCE

Confidences(sjs) == [i \in 1..Len(sjs) |-> ConfidenceOf(sjs[i])]

RECURSIVE SumSeq(_)
SumSeq(q) == IF q = <<>> THEN 0 ELSE Head(q) + SumSeq(Tail(q))

\* avg_confidence < t, for avg_confidence = sum / len, or 0.0 for no sections
AvgBelow(confs, t) ==
    IF confs = <<>> THEN 0 < t ELSE SumSeq(confs) < t * Len(confs)

AnyBelow(confs, t) == \E i \in 1..Len(confs) : confs[i] < t

\* positions (0-based, as enumerate gives them) of the sections without _metadata
MissingMetadataIdx(sjs) ==
    LET F[i \in 0..Len(sjs)] ==
            IF i = 0 THEN <<>>
            ELSE IF ~sjs[i].has_metadata THEN Append(F[i - 1], i - 1) ELSE F[i - 1]
    IN  F[Len(sjs)]

ValidateDocumentStructure(sjs, meta) ==
    LET sectionErrors ==
            IF sjs = <<>> THEN << <<"Document has no sections">> >>
            ELSE [k \in 1..Len(MissingMetadataIdx(sjs)) |->
                    <<"Section missing _metadata field", MissingMetadataIdx(sjs)[k]>>]
        metaErrors ==
            (IF "total_pages" \in meta THEN <<>>
             ELSE << <<"Missing metadata field", "total_pages">> >>)
            \o (IF "processing_timestamp" \in meta THEN <<>>
                ELSE << <<"Missing metadata field", "processing_timestamp">> >>)
    IN  sectionErrors \o metaErrors

(* ValidationAgent *)

\* one entry of the list reasons; k is the count the entry prints in front of
\* its text, 0 for an entry that prints none.  The mean an entry prints in
\* parentheses after its text is left out
ReasonPart(text, k) == [text |-> text, k |-> k]

\* "; ".join(reasons) is kept as the list of the joined entries
UnknownIssue == <<ReasonPart("Unknown issue", 0)>>

LowSections(confs) ==
    Cardinality({ i \in 1..Len(confs) : confs[i] < LOW_CONFIDENCE_THRESHOLD })

DetermineReviewReasonNoStructure(confs, is_valid) ==
    LET reasons ==
            (IF AvgBelow(confs, LOW_CONFIDENCE_THRESHOLD)
             THEN <<ReasonPart("Very low confidence", 0)>>
             ELSE IF AvgBelow(confs, CONFIDENCE_THRESHOLD)
                  THEN <<ReasonPart("Low confidence", 0)>>
                  ELSE <<>>)
            \o (IF LowSections(confs) > 0
                THEN <<ReasonPart("section(s) with very low confidence", LowSections(confs))>>
                ELSE <<>>)
    IN  IF reasons # <<>> THEN reasons ELSE UnknownIssue

DetermineReviewReasonNoElif(confs, is_valid) ==
    LET reasons ==
            (IF AvgBelow(confs, LOW_CONFIDENCE_THRESHOLD)
             THEN <<ReasonPart("Very low confidence", 0)>>
             ELSE <<>>)
            \o (IF AvgBelow(confs, CONFIDENCE_THRESHOLD)
                THEN <<ReasonPart("Low confidence", 0)>>
                ELSE <<>>)
            \o (IF ~is_valid THEN <<ReasonPart("Structure validation failed", 0)>> ELSE <<>>)
            \o (IF LowSections(confs) > 0
                THEN <<ReasonPart("section(s) with very low confidence", LowSections(confs))>>
                ELSE <<>>)
    IN  IF reasons # <<>> THEN reasons ELSE UnknownIssue

DetermineReviewReason(confs, is_valid) ==
    LET reasons ==
            (IF AvgBelow(confs, LOW_CONFIDENCE_THRESHOLD)
             THEN <<ReasonPart("Very low confidence", 0)>>
             ELSE IF AvgBelow(confs, CONFIDENCE_THRESHOLD)
                  THEN <<ReasonPart("Low confidence", 0)>>
                  ELSE <<>>)
            \o (IF ~is_valid THEN <<ReasonPart("Structure validation failed", 0)>> ELSE <<>>)
            \o (IF LowSections(confs) > 0
                THEN <<ReasonPart("section(s) with very low confidence", LowSections(confs))>>
                ELSE <<>>)
    IN  IF reasons # <<>> THEN reasons ELSE UnknownIssue

NeedsReviewIgnoringStructure(confs, is_valid) ==
    \/ AvgBelow(confs, CONFIDENCE_THRESHOLD)
    \/ AnyBelow(confs, LOW_CONFIDENCE_THRESHOLD)

NeedsReview(confs, is_valid) ==
    \/ AvgBelow(confs, CONFIDENCE_THRESHOLD)
    \/ ~is_valid
    \/ AnyBelow(confs, LOW_CONFIDENCE_THRESHOLD)

\* ValidationAgent.validate_and_combine
ValidateAndCombine ==
    /\ pc = "validate"
    /\ validator = "ValidationAgent"
    /\ LET confs == Confidences(section_jsons)
           errors == ValidateDocumentStructure(section_jsons, document_metadata)
           is_valid == errors = <<>>
           document_json ==
               [sections |-> section_jsons,
                confidence_score |-> <<SumSeq(confs), Len(confs)>>,
                section_count |-> Len(section_jsons),
                validation_status |-> "pending",
                validation_errors |-> errors]
           review == NeedsReview(confs, is_valid)
       IN  /\ needs_review' = review
           /\ IF review
              THEN /\ review_queue' = Append(review_queue,
                          [status |-> "pending",
                           reason |-> DetermineReviewReason(confs, is_valid),
                           document |-> document_json])
                   /\ UNCHANGED final_store
              ELSE /\ final_store' = Append(final_store, document_json)
                   /\ UNCHANGED review_queue
    /\ validate_calls' = validate_calls + 1
    /\ pc' = "done"
    /\ UNCHANGED <<section_jsons, document_metadata, validator>>

(* ValidationAgentDocuPorter *)

RECURSIVE DedupNames(_, _)
DedupNames(sjs, seen) ==
    IF sjs = <<>> THEN seen
    ELSE DedupNames(Tail(sjs),
                    IF \E i \in 1..Len(seen) : seen[i] = Head(sjs).section_name
                    THEN seen ELSE Append(seen, Head(sjs).section_name))

\* ValidationAgentDocuPorter.validate_and_combine: needs_review only goes into
\* the returned metadata; the document is saved to the final store in any case
ValidateAndCombineDocuPorter ==
    /\ pc = "validate"
    /\ validator = "ValidationAgentDocuPorter"
    /\ LET confs == Confidences(section_jsons)
       IN  /\ needs_review' = (\/ AvgBelow(confs, CONFIDENCE_THRESHOLD)
                               \/ AnyBelow(confs, LOW_CONFIDENCE_THRESHOLD))
           /\ final_store' = Append(final_store,
                  [Sections |-> DedupNames(section_jsons, <<>>),
                   section_count |-> Len(section_jsons)])
    /\ document_metadata' = document_metadata
                              \cup {"confidence_score", "needs_review", "section_count"}
    /\ validate_calls' = validate_calls + 1
    /\ pc' = "done"
    /\ UNCHANGED <<section_jsons, review_queue, validator>>

(* Gate runs: validate_and_combine of either validator on a drawn section list *)

GateConfidences == {NoConfidence, 0, 69, 70, 84, 85, 100}

GateSections ==
    UNION { [1..n -> [section_name : {"SAFETY", "Task Activities"},
                      has_metadata : BOOLEAN,
                      confidence : GateConfidences]]
            : n \in 0..MaxGateLen }

InitGate ==
    /\ pc = "validate"
    /\ section_jsons \in GateSections
    /\ document_metadata \in SUBSET PipelineMetadata
    /\ validator \in {"ValidationAgent", "ValidationAgentDocuPorter"}
    /\ total_pages = 1
    /\ parallel = FALSE
    /\ DetectIdle
    /\ ExtractIdle
    /\ GateIdle
    /\ ScoreIdle
    /\ RepairIdle
    /\ RetryIdle
    /\ BatchIdle

NextGate ==
    \/ ValidateAndCombine
         /\ UNCHANGED detectVars /\ UNCHANGED extractVars /\ UNCHANGED restVars
    \/ ValidateAndCombineDocuPorter
         /\ UNCHANGED detectVars /\ UNCHANGED extractVars /\ UNCHANGED restVars

SpecGate == InitGate /\ [][NextGate]_vars

----------------------------------------------------------------------------
(* StorageManager.approve_document and reject_document, as
   scripts/validate_outputs.py calls them on the document of the run *)

\* data[key] = value on a dict read from the queue file
SetKey(data, key, value) ==
    [k \in DOMAIN data \cup {key} |-> IF k = key THEN value ELSE data[k]]

\* the content of the queue file of the document: what was written last
QueueFile == review_queue[Len(review_queue)]

\* approve_document: without a queue file it logs and returns; otherwise the
\* status becomes approved whatever it was, the file is written back and the
\* queued document goes to the final store as it was queued
ApproveDocument ==
    /\ pc = "done"
    /\ Len(final_store) < MaxFinalWrites
    /\ IF review_queue = <<>>
       THEN UNCHANGED <<review_queue, final_store>>
       ELSE LET data == SetKey(SetKey(QueueFile, "status", "approved"),
                               "reviewer", "reviewer")
            IN  /\ review_queue' = [review_queue EXCEPT ![Len(review_queue)] = data]
                /\ final_store' = Append(final_store, data.document)
    /\ UNCHANGED <<pc, section_jsons, validate_calls, document_metadata, validator,
                   needs_review>>

\* reject_document: without a queue file it logs and returns; otherwise the
\* status becomes rejected whatever it was and the file is written back
RejectDocument ==
    /\ pc = "done"
    /\ IF review_queue = <<>>
       THEN UNCHANGED review_queue
       ELSE review_queue' =
              [review_queue EXCEPT ![Len(review_queue)] =
                  SetKey(SetKey(SetKey(QueueFile, "status", "rejected"),
                                "reviewer", "reviewer"),
                         "rejection_reason", "reason")]
    /\ UNCHANGED <<pc, section_jsons, validate_calls, document_metadata, validator,
                   needs_review, final_store>>

\* the gate of ValidationAgent, then the reviewer's calls
InitReview ==
    /\ InitGate
    /\ validator = "ValidationAgent"

NextReview ==
    \/ ValidateAndCombine
         /\ UNCHANGED detectVars /\ UNCHANGED extractVars /\ UNCHANGED restVars
    \/ ApproveDocument
         /\ UNCHANGED detectVars /\ UNCHANGED extractVars /\ UNCHANGED restVars
    \/ RejectDocument
         /\ UNCHANGED detectVars /\ UNCHANGED extractVars /\ UNCHANGED restVars

SpecReview == InitReview /\ [][NextReview]_vars

----------------------------------------------------------------------------
(* process_single_pdf *)

\* confidences calculate_confidence_score gives an extracted section
ExtractConfidences == {60, 90}

\* the result extract_section returns for sections[i]
ExtractResult(i, c) ==
    [section_name |-> sections.list[i].section_name,
     page_range |-> <<sections.list[i].start_page, sections.list[i].end_page>>,
     data |-> "section_json",
     has_metadata |-> TRUE, confidence |-> c]

\* the file name characters save_section_json replaces: section_name with
\* every ' ' and every '/' turned into '_'
SafeName(section_name) ==
    CASE section_name = "Task Activities" -> "Task_Activities"
      [] OTHER -> section_name

\* save_section_json: SECTIONS_DIR once the file of the section is written; the
\* file name is built from the document id, the same for every section of the
\* run, and the sanitised section name; open(.., 'w') replaces an older file
SaveSectionJson(result) ==
    LET output_file == SafeName(result.section_name)
    IN  [f \in DOMAIN section_store \cup {output_file} |->
            IF f = output_file
            THEN [section_name |-> result.section_name,
                  confidence |-> result.confidence,
                  data |-> result]
            ELSE section_store[f]]

\* ext_log once the call for sections[i] ended the given way
Logged(i, how) == [ext_log EXCEPT ![i] = Append(@, how)]

\* stage 3 starts; the parallel version submits every section
EnterExtraction ==
    /\ section_jsons' = <<>>
    /\ ext_idx' = 1
    /\ counter' = RETRY_COUNTER
    /\ pending' = IF parallel THEN 1..Len(sections.list) ELSE {}
    /\ ext_log' = [i \in 1..Len(sections.list) |-> <<>>]
    /\ pc' = "extract"

\* detect_sections has returned: process_single_pdf line 94.  With None,
\* len(sections) raises and the handler of line 145 re-raises
CheckDetected ==
    /\ pc = "returned"
    /\ IF sections.is_none
       THEN /\ pc' = "failed"
            /\ UNCHANGED <<section_jsons, ext_idx, counter, pending, ext_log>>
       ELSE EnterExtraction
    /\ batch_sections' = <<>>
    /\ merge_groups' = <<>>
    /\ merged_sections' = None
    /\ UNCHANGED <<total_pages, batch_idx, sections, detection_store, response,
                   raw_responses, parallel, extract_calls, section_store, gateVars>>

\* _extract_sections_non_parallel: extract_section returns for sections[ext_idx]
ExtractOk ==
    /\ pc = "extract"
    /\ ~parallel
    /\ ext_idx <= Len(sections.list)
    /\ \E c \in ExtractConfidences :
          /\ section_jsons' = Append(section_jsons, ExtractResult(ext_idx, c))
          /\ section_store' = SaveSectionJson(ExtractResult(ext_idx, c))
    /\ extract_calls' = extract_calls + 1
    /\ ext_log' = Logged(ext_idx, "returned")
    /\ ext_idx' = ext_idx + 1
    /\ counter' = RETRY_COUNTER
    /\ UNCHANGED <<pc, parallel, pending>>

\* as ExtractRaises, but the exception of the last attempt leaves the loop over
\* the sections
ExtractRaisesAborts ==
    /\ pc = "extract"
    /\ ~parallel
    /\ ext_idx <= Len(sections.list)
    /\ extract_calls' = extract_calls + 1
    /\ ext_log' = Logged(ext_idx, "raised")
    /\ IF counter > 0
       THEN /\ counter' = counter - 1
            /\ UNCHANGED ext_idx
       ELSE /\ counter' = RETRY_COUNTER
            /\ ext_idx' = Len(sections.list) + 1
    /\ UNCHANGED <<pc, parallel, pending, section_jsons, section_store>>

\* _extract_sections_non_parallel: extract_section raises for sections[ext_idx]
ExtractRaises ==
    /\ pc = "extract"
    /\ ~parallel
    /\ ext_idx <= Len(sections.list)
    /\ extract_calls' = extract_calls + 1
    /\ ext_log' = Logged(ext_idx, "raised")
    /\ IF counter > 0
       THEN /\ counter' = counter - 1
            /\ UNCHANGED ext_idx
       ELSE /\ counter' = RETRY_COUNTER
            /\ ext_idx' = ext_idx + 1
    /\ UNCHANGED <<pc, parallel, pending, section_jsons, section_store>>

\* _extract_sections_parallel: as_completed yields the future of sections[i]
FutureCompletes(i) ==
    /\ pc = "extract"
    /\ parallel
    /\ i \in pending
    /\ pending' = pending \ {i}
    /\ extract_calls' = extract_calls + 1
    /\ \/ /\ \E c \in ExtractConfidences :
                /\ section_jsons' = Append(section_jsons, ExtractResult(i, c))
                /\ section_store' = SaveSectionJson(ExtractResult(i, c))
          /\ ext_log' = Logged(i, "returned")
       \/ /\ UNCHANGED <<section_jsons, section_store>>
          /\ ext_log' = Logged(i, "raised")
    /\ UNCHANGED <<pc, parallel, ext_idx, counter>>

\* stage 3 returns section_jsons; _map_images_to_sections leaves the metadata alone
ExtractionReturns ==
    /\ pc = "extract"
    /\ IF parallel THEN pending = {} ELSE ext_idx > Len(sections.list)
    /\ pc' = "review"
    /\ UNCHANGED <<section_jsons, extractVars>>

\* call_review_agent returns
ReviewReturns ==
    /\ pc = "review"
    /\ pc' = "validate"
    /\ UNCHANGED <<section_jsons, extractVars>>

\* review_document raises (it logs and re-raises), and so does process_single_pdf
ReviewRaises ==
    /\ pc = "review"
    /\ pc' = "failed"
    /\ UNCHANGED <<section_jsons, extractVars>>

Init ==
    /\ pc = "detect"
    /\ DetectInit
    /\ parallel \in BOOLEAN
    /\ section_jsons = <<>>
    /\ ExtractIdle
    /\ GateIdle
    /\ ScoreIdle
    /\ document_metadata = PipelineMetadata
    /\ validator = "ValidationAgent"
    /\ RepairIdle
    /\ RetryIdle
    /\ BatchIdle

Next ==
    \/ DetectBatch(MaxDocCands) /\ UNCHANGED pipeVars /\ UNCHANGED restVars
    \/ DetectBatchRaises /\ UNCHANGED pipeVars /\ UNCHANGED restVars
    \/ MergeBatches /\ UNCHANGED pipeVars /\ UNCHANGED restVars
    \/ DetectReturn /\ UNCHANGED pipeVars /\ UNCHANGED restVars
    \/ CheckDetected /\ UNCHANGED restVars
    \/ ExtractOk /\ UNCHANGED detectVars /\ UNCHANGED gateVars /\ UNCHANGED restVars
    \/ ExtractRaises /\ UNCHANGED detectVars /\ UNCHANGED gateVars /\ UNCHANGED restVars
    \/ \E i \in 1..MaxDocCands :
          FutureCompletes(i) /\ UNCHANGED detectVars /\ UNCHANGED gateVars /\ UNCHANGED restVars
    \/ ExtractionReturns /\ UNCHANGED detectVars /\ UNCHANGED gateVars /\ UNCHANGED restVars
    \/ ReviewReturns /\ UNCHANGED detectVars /\ UNCHANGED gateVars /\ UNCHANGED restVars
    \/ ReviewRaises /\ UNCHANGED detectVars /\ UNCHANGED gateVars /\ UNCHANGED restVars
    \/ ValidateAndCombine /\ UNCHANGED detectVars /\ UNCHANGED extractVars /\ UNCHANGED restVars

Spec == Init /\ [][Next]_vars

----------------------------------------------------------------------------
(* Extraction runs: stage 3 of process_single_pdf on a detected section list *)

\* n one-page sections of alternating name and type, as detect_sections returns
\* them for an n-page document
DetectedSections(n) ==
    [i \in 1..n |->
        Candidate(IF i % 2 = 1 THEN <<"SAFETY", "safety">>
                  ELSE <<"Task Activities", "task_activities">>, i, i)]

InitExtract ==
    /\ pc = "returned"
    /\ total_pages \in 1..MaxExtractLen
    /\ sections = Some(DetectedSections(total_pages))
    /\ batch_idx = num_batches(total_pages)
    /\ batch_sections = <<>>
    /\ merge_groups = <<>>
    /\ merged_sections = None
    /\ detection_store = TRUE
    /\ response = <<>>
    /\ raw_responses = <<>>
    /\ parallel \in BOOLEAN
    /\ section_jsons = <<>>
    /\ ExtractIdle
    /\ GateIdle
    /\ ScoreIdle
    /\ document_metadata = PipelineMetadata
    /\ validator = "ValidationAgent"
    /\ RepairIdle
    /\ RetryIdle
    /\ BatchIdle

NextExtract ==
    \/ CheckDetected /\ UNCHANGED restVars
    \/ ExtractOk /\ UNCHANGED detectVars /\ UNCHANGED gateVars /\ UNCHANGED restVars
    \/ ExtractRaises /\ UNCHANGED detectVars /\ UNCHANGED gateVars /\ UNCHANGED restVars
    \/ \E i \in 1..MaxExtractLen :
          FutureCompletes(i) /\ UNCHANGED detectVars /\ UNCHANGED gateVars /\ UNCHANGED restVars
    \/ ExtractionReturns /\ UNCHANGED detectVars /\ UNCHANGED gateVars /\ UNCHANGED restVars

SpecExtract == InitExtract /\ [][NextExtract]_vars

(* Extraction runs on section lists in which a name may come back *)

\* n one-page sections that all carry one name, with alternating types: the
\* merge keeps such neighbours apart
SameNameSections(n) ==
    [i \in 1..n |->
        Candidate(IF i % 2 = 1 THEN <<"SAFETY", "safety">>
                  ELSE <<"SAFETY", "general">>, i, i)]

InitStore ==
    /\ pc = "returned"
    /\ total_pages \in 1..MaxExtractLen
    /\ sections \in {Some(DetectedSections(total_pages)), Some(SameNameSections(total_pages))}
    /\ batch_idx = num_batches(total_pages)
    /\ batch_sections = <<>>
    /\ merge_groups = <<>>
    /\ merged_sections = None
    /\ detection_store = TRUE
    /\ response = <<>>
    /\ raw_responses = <<>>
    /\ parallel \in BOOLEAN
    /\ section_jsons = <<>>
    /\ ExtractIdle
    /\ GateIdle
    /\ ScoreIdle
    /\ document_metadata = PipelineMetadata
    /\ validator = "ValidationAgent"
    /\ RepairIdle
    /\ RetryIdle
    /\ BatchIdle

NextStore ==
    \/ CheckDetected /\ UNCHANGED restVars
    \/ ExtractOk /\ UNCHANGED detectVars /\ UNCHANGED gateVars /\ UNCHANGED restVars
    \/ ExtractRaises /\ UNCHANGED detectVars /\ UNCHANGED gateVars /\ UNCHANGED restVars
    \/ \E i \in 1..MaxExtractLen :
          FutureCompletes(i) /\ UNCHANGED detectVars /\ UNCHANGED gateVars /\ UNCHANGED restVars
    \/ ExtractionReturns /\ UNCHANGED detectVars /\ UNCHANGED gateVars /\ UNCHANGED restVars

SpecStore == InitStore /\ [][NextStore]_vars

(* Stages 3 to 5 of process_single_pdf on a detected section list *)

NextAccept ==
    \/ CheckDetected /\ UNCHANGED restVars
    \/ ExtractOk /\ UNCHANGED detectVars /\ UNCHANGED gateVars /\ UNCHANGED restVars
    \/ ExtractRaises /\ UNCHANGED detectVars /\ UNCHANGED gateVars /\ UNCHANGED restVars
    \/ \E i \in 1..MaxExtractLen :
          FutureCompletes(i) /\ UNCHANGED detectVars /\ UNCHANGED gateVars /\ UNCHANGED restVars
    \/ ExtractionReturns /\ UNCHANGED detectVars /\ UNCHANGED gateVars /\ UNCHANGED restVars
    \/ ReviewReturns /\ UNCHANGED detectVars /\ UNCHANGED gateVars /\ UNCHANGED restVars
    \/ ReviewRaises /\ UNCHANGED detectVars /\ UNCHANGED gateVars /\ UNCHANGED restVars
    \/ ValidateAndCombine /\ UNCHANGED detectVars /\ UNCHANGED extractVars /\ UNCHANGED restVars

SpecAccept == InitExtract /\ [][NextAccept]_vars

----------------------------------------------------------------------------
(* BedrockClient.invoke_with_retry *)

\* parsed response bodies a successful attempt returns
Responses == {"response_a", "response_b"}

\* what an attempt raises: json.loads on the body, a missing or empty body,
\* the client call itself
AttemptErrors == {"JSONDecodeError", "ValueError", "ClientError", "ReadTimeoutError"}

\* the value of a function that ends without a return statement
ImplicitNone == "None"

InitRetry ==
    /\ pc = "invoke"
    /\ max_retries \in 0..MaxRetriesArg
    /\ attempt = 0
    /\ invoke_log = <<>>
    /\ invoke_result = [kind |-> "running", value |-> "none"]
    /\ total_pages = 1
    /\ DetectIdle
    /\ parallel = FALSE
    /\ section_jsons = <<>>
    /\ ExtractIdle
    /\ GateIdle
    /\ ScoreIdle
    /\ document_metadata = PipelineMetadata
    /\ validator = "ValidationAgent"
    /\ RepairIdle
    /\ BatchIdle

\* lines 104-147: the attempt gets a body and parses it
AttemptReturns ==
    /\ pc = "invoke"
    /\ attempt < max_retries
    /\ \E r \in Responses :
          invoke_result' = [kind |-> "returned", value |-> r]
    /\ invoke_log' = Append(invoke_log, "ok")
    /\ pc' = "invoked"
    /\ UNCHANGED <<max_retries, attempt>>

\* lines 149-165: the attempt raises; both handlers sleep and go on unless this
\* was the last pass of the loop, where they re-raise
AttemptRaises ==
    /\ pc = "invoke"
    /\ attempt < max_retries
    /\ \E e \in AttemptErrors :
          /\ invoke_log' = Append(invoke_log, e)
          /\ IF attempt < max_retries - 1
             THEN /\ attempt' = attempt + 1
                  /\ UNCHANGED <<pc, invoke_result>>
             ELSE /\ invoke_result' = [kind |-> "raised", value |-> e]
                  /\ pc' = "invoked"
                  /\ UNCHANGED attempt
    /\ UNCHANGED max_retries

\* range(max_retries) is exhausted without a return or a raise: the function
\* ends after the loop
LoopFallsThrough ==
    /\ pc = "invoke"
    /\ attempt >= max_retries
    /\ invoke_result' = [kind |-> "returned", value |-> ImplicitNone]
    /\ pc' = "invoked"
    /\ UNCHANGED <<max_retries, attempt, invoke_log>>

NextRetry ==
    \/ AttemptReturns /\ UNCHANGED detectVars /\ UNCHANGED pipeVars
                      /\ UNCHANGED repairVars /\ UNCHANGED batchVars /\ UNCHANGED scoreVars
    \/ AttemptRaises /\ UNCHANGED detectVars /\ UNCHANGED pipeVars
                     /\ UNCHANGED repairVars /\ UNCHANGED batchVars /\ UNCHANGED scoreVars
    \/ LoopFallsThrough /\ UNCHANGED detectVars /\ UNCHANGED pipeVars
                        /\ UNCHANGED repairVars /\ UNCHANGED batchVars /\ UNCHANGED scoreVars

SpecRetry == InitRetry /\ [][NextRetry]_vars

----------------------------------------------------------------------------
(* process_batch *)

\* paths of PDF files: two directories hold a file of the same name
PdfPaths == { [dir |-> "in", stem |-> "doc1"],
              [dir |-> "in/old", stem |-> "doc1"],
              [dir |-> "in", stem |-> "doc2"] }

\* Path(pdf_path).stem
Stem(path) == path.stem

\* str(e) of what process_single_pdf raises
PipelineErrors == {"object of type 'NoneType' has no len()", "review failed"}

\* [p for p in pdf_paths if Path(p).stem not in done]
RECURSIVE NotYetCompleted(_, _)
NotYetCompleted(paths, done) ==
    IF paths = <<>> THEN <<>>
    ELSE IF Stem(Head(paths)) \notin done
         THEN <<Head(paths)>> \o NotYetCompleted(Tail(paths), done)
         ELSE NotYetCompleted(Tail(paths), done)

\* lists of distinct paths, as a glob over the input directory gives them
BatchInputs ==
    { l \in UNION { [1..n -> PdfPaths] : n \in 0..MaxBatchDocs } :
        \A i, j \in 1..Len(l) : i # j => l[i] # l[j] }

\* what an earlier run left in PROGRESS_FILE: some documents completed, and
\* possibly doc1 failed and not completed
PersistedProgress ==
    { pf \in [completed : SUBSET { Stem(p) : p \in PdfPaths },
              failed : {<<>>, <<"doc1">>}] :
        \A i \in 1..Len(pf.failed) : pf.failed[i] \notin pf.completed }

InitBatch ==
    /\ pc = "batch"
    /\ pdf_paths \in BatchInputs
    /\ resume \in BOOLEAN
    /\ progress_file \in PersistedProgress
    /\ remaining = <<>>
    /\ doc_i = 0
    /\ completed = {}
    /\ failed = <<>>
    /\ results = [completed |-> <<>>, failed |-> <<>>, counts |-> <<>>]
    /\ batch_log = <<>>
    /\ total_pages = 1
    /\ DetectIdle
    /\ parallel = TRUE
    /\ section_jsons = <<>>
    /\ ExtractIdle
    /\ GateIdle
    /\ ScoreIdle
    /\ document_metadata = PipelineMetadata
    /\ validator = "ValidationAgent"
    /\ RepairIdle
    /\ RetryIdle

\* lines 408-425: load_progress, the choice of remaining, the empty results
BatchStart ==
    /\ pc = "batch"
    /\ pc' = "batch_loop"
    /\ IF resume
       THEN /\ remaining' = NotYetCompleted(pdf_paths, progress_file.completed)
            /\ completed' = progress_file.completed
            /\ failed' = progress_file.failed
       ELSE /\ remaining' = pdf_paths
            /\ completed' = {}
            /\ failed' = <<>>
    /\ results' = [completed |-> <<>>, failed |-> <<>>, counts |-> <<>>]
    /\ doc_i' = 1
    /\ UNCHANGED <<pdf_paths, resume, progress_file, batch_log>>

\* lines 432-435 and 442: process_single_pdf returns for remaining[doc_i]
DocumentCompletes ==
    /\ pc = "batch_loop"
    /\ doc_i <= Len(remaining)
    /\ LET document_id == Stem(remaining[doc_i])
       IN  /\ completed' = completed \cup {document_id}
           /\ results' = [results EXCEPT !.completed = Append(@, document_id)]
           /\ progress_file' = [completed |-> completed \cup {document_id},
                                failed |-> failed]
           /\ batch_log' = Append(batch_log, [document_id |-> document_id, error |-> ""])
    /\ doc_i' = doc_i + 1
    /\ UNCHANGED <<pc, pdf_paths, resume, remaining, failed>>

\* lines 437-442: process_single_pdf raises for remaining[doc_i]
DocumentFails ==
    /\ pc = "batch_loop"
    /\ doc_i <= Len(remaining)
    /\ LET document_id == Stem(remaining[doc_i])
       IN  \E e \in PipelineErrors :
              /\ failed' = Append(failed, document_id)
              /\ results' = [results EXCEPT
                     !.failed = Append(@, [document_id |-> document_id, error |-> e])]
              /\ progress_file' = [completed |-> completed,
                                   failed |-> Append(failed, document_id)]
              /\ batch_log' = Append(batch_log, [document_id |-> document_id, error |-> e])
    /\ doc_i' = doc_i + 1
    /\ UNCHANGED <<pc, pdf_paths, resume, remaining, completed>>

\* lines 444-452: the counts are filled in and results is returned
BatchReturns ==
    /\ pc = "batch_loop"
    /\ doc_i > Len(remaining)
    /\ results' = [results EXCEPT
           !.counts = <<Len(results.completed), Len(results.failed)>>]
    /\ pc' = "batch_done"
    /\ UNCHANGED <<pdf_paths, resume, remaining, doc_i, completed, failed,
                   progress_file, batch_log>>

NextBatch ==
    \/ BatchStart /\ UNCHANGED detectVars /\ UNCHANGED pipeVars
                  /\ UNCHANGED repairVars /\ UNCHANGED retryVars /\ UNCHANGED scoreVars
    \/ DocumentCompletes /\ UNCHANGED detectVars /\ UNCHANGED pipeVars
                         /\ UNCHANGED repairVars /\ UNCHANGED retryVars /\ UNCHANGED scoreVars
    \/ DocumentFails /\ UNCHANGED detectVars /\ UNCHANGED pipeVars
                     /\ UNCHANGED repairVars /\ UNCHANGED retryVars /\ UNCHANGED scoreVars
    \/ BatchReturns /\ UNCHANGED detectVars /\ UNCHANGED pipeVars
                    /\ UNCHANGED repairVars /\ UNCHANGED retryVars /\ UNCHANGED scoreVars

SpecBatch == InitBatch /\ [][NextBatch]_vars

----------------------------------------------------------------------------
(* calculate_confidence_score and check_dict_empty of section_extractor.py *)

\* str.strip() on the strings of the model
StripStr(s) == IF s = " " THEN "" ELSE s

RECURSIVE CheckDictEmpty(_)
\* check_dict_empty: more than half of the fields of the dict are empty
CheckDictEmpty(data) ==
    IF data.kids = <<>>
    THEN TRUE
    ELSE LET IsEmptyValue(value) ==
                 \/ value.type = "null"
                 \/ value.type = "str" /\ value.str = ""
                 \/ value.type = "str" /\ StripStr(value.str) = ""
                 \/ value.type = "list" /\ Len(value.kids) = 0
                 \/ value.type = "dict" /\ CheckDictEmpty(value)
             empty_count ==
                 Cardinality({k \in DOMAIN data.kids : IsEmptyValue(data.kids[k])})
             total_count == Len(data.kids)
         IN  2 * empty_count > total_count

\* max(0.0, min(1.0, confidence))
ClampConfidence(c) ==
    IF c.num < 0 THEN Fraction(0, 1)
    ELSE IF c.num > 100 * c.den THEN Fraction(100, 1)
    ELSE c

\* as CalculateConfidenceScore, but an object without fields costs nothing
CalculateConfidenceScoreNoEmptyObject(extracted_data) ==
    IF extracted_data.type = "null"
    THEN Fraction(0, 1)
    ELSE ClampConfidence(
           CASE extracted_data.type = "list" ->
                  IF Len(extracted_data.kids) = 0
                  THEN Fraction(100 - 30, 1)
                  ELSE LET empty_items == Cardinality(
                               {i \in DOMAIN extracted_data.kids :
                                   /\ extracted_data.kids[i].type = "dict"
                                   /\ CheckDictEmpty(extracted_data.kids[i])})
                       IN  IF empty_items > 0
                           THEN Fraction(100 * Len(extracted_data.kids) - 20 * empty_items,
                                         Len(extracted_data.kids))
                           ELSE Fraction(100, 1)
             [] extracted_data.type = "dict" ->
                  IF Len(extracted_data.kids) = 0
                  THEN Fraction(100, 1)
                  ELSE IF CheckDictEmpty(extracted_data)
                       THEN Fraction(100 - 20, 1)
                       ELSE Fraction(100, 1)
             [] OTHER -> Fraction(100, 1))

\* calculate_confidence_score(extracted_data, section_type)[0]; the function
\* never reads section_type.  The ratio empty_items / len is kept exact
CalculateConfidenceScore(extracted_data) ==
    IF extracted_data.type = "null"
    THEN Fraction(0, 1)
    ELSE ClampConfidence(
           CASE extracted_data.type = "list" ->
                  IF Len(extracted_data.kids) = 0
                  THEN Fraction(100 - 30, 1)
                  ELSE LET empty_items == Cardinality(
                               {i \in DOMAIN extracted_data.kids :
                                   /\ extracted_data.kids[i].type = "dict"
                                   /\ CheckDictEmpty(extracted_data.kids[i])})
                       IN  IF empty_items > 0
                           THEN Fraction(100 * Len(extracted_data.kids) - 20 * empty_items,
                                         Len(extracted_data.kids))
                           ELSE Fraction(100, 1)
             [] extracted_data.type = "dict" ->
                  IF Len(extracted_data.kids) = 0
                  THEN Fraction(100 - 30, 1)
                  ELSE IF CheckDictEmpty(extracted_data)
                       THEN Fraction(100 - 20, 1)
                       ELSE Fraction(100, 1)
             [] OTHER -> Fraction(100, 1))

\* values a field or an item holds: text, blank text, null
Leaves == {Str("v"), Str(" "), Null}

\* objects of one or two such fields
NestedDicts ==
    {Dict(<<a>>) : a \in Leaves} \cup {Dict(<<a, b>>) : a \in Leaves, b \in Leaves}

FieldValues == Leaves \cup NestedDicts \cup {List(<<Str("v")>>)}

\* the extracted_data values of the model: no data, text, and objects and
\* arrays of up to MaxFields values
Records ==
    {Null, Str("v")}
      \cup UNION {{Dict(vs) : vs \in [1..k -> FieldValues]} : k \in 0..MaxFields}
      \cup UNION {{List(vs) : vs \in [1..k -> FieldValues]} : k \in 0..MaxFields}

RECURSIVE EmptiedOnce(_)
\* x with one of its fields or items, or x itself, emptied: text becomes "",
\* an array [], an object {}; every other key, item and type stays
EmptiedOnce(x) ==
    CASE x.type = "str" -> IF x.str = "" THEN {} ELSE {Str("")}
      [] x.type \in {"list", "dict"} ->
           IF x.kids = <<>>
           THEN {}
           ELSE {[x EXCEPT !.kids = <<>>]} \cup
                UNION {{[x EXCEPT !.kids[i] = y] : y \in EmptiedOnce(x.kids[i])} :
                          i \in DOMAIN x.kids}
      [] OTHER -> {}

InitScore ==
    /\ pc = "score"
    /\ fuller \in Records
    /\ emptier = fuller
    /\ fuller_confidence = NotScored
    /\ emptier_confidence = NotScored
    /\ total_pages = 1
    /\ DetectIdle
    /\ parallel = FALSE
    /\ section_jsons = <<>>
    /\ ExtractIdle
    /\ GateIdle
    /\ document_metadata = PipelineMetadata
    /\ validator = "ValidationAgent"
    /\ RepairIdle
    /\ RetryIdle
    /\ BatchIdle

\* one more field or item of the emptier value is emptied
EmptyOne ==
    /\ pc = "score"
    /\ emptier' \in EmptiedOnce(emptier)
    /\ UNCHANGED <<pc, fuller, fuller_confidence, emptier_confidence>>

\* calculate_confidence_score is called on both values
Calculate ==
    /\ pc = "score"
    /\ pc' = "scored"
    /\ fuller_confidence' = CalculateConfidenceScore(fuller)
    /\ emptier_confidence' = CalculateConfidenceScore(emptier)
    /\ UNCHANGED <<fuller, emptier>>

NextScore ==
    \/ EmptyOne /\ UNCHANGED detectVars /\ UNCHANGED pipeVars
                /\ UNCHANGED repairVars /\ UNCHANGED retryVars /\ UNCHANGED batchVars
    \/ Calculate /\ UNCHANGED detectVars /\ UNCHANGED pipeVars
                 /\ UNCHANGED repairVars /\ UNCHANGED retryVars /\ UNCHANGED batchVars

SpecScore == InitScore /\ [][NextScore]_vars

----------------------------------------------------------------------------
(* Readings of a detector run used by the properties below *)

SameLabel(x, y) ==
    x.section_name = y.section_name /\ x.section_type = y.section_type

\* the candidates in the order _merge_batch_sections walks them
SortedCands == SortByStart(CollectAllSections(batch_sections))

\* the same order, each position tagged with the batch b and index j it came from
SortedTagged ==
    SortByStart(Concat([b \in 1..Len(batch_sections) |->
        [j \in 1..Len(batch_sections[b].sections) |->
            [start_page |-> batch_sections[b].sections[j].start_page,
             b |-> b, j |-> j]]]))

PosOf(b, j) ==
    CHOOSE p \in 1..Len(SortedTagged) : SortedTagged[p].b = b /\ SortedTagged[p].j = j

SetMax(S) == CHOOSE m \in S : \A x \in S : x <= m

\* sections sorted by start_page, first at 1, last at n, each ending right before the next
IsPartition(l, n) ==
    /\ l[1].start_page = 1
    /\ l[Len(l)].end_page = n
    /\ \A i \in 1..(Len(l) - 1) : l[i].end_page = l[i + 1].start_page - 1

\* candidate i of batch k ends at that batch's last page and candidate j of batch
\* k + 1, of the same name and type, starts at that batch's first page
SeamPair(k, i, j) ==
    LET a == batch_sections[k].sections[i]
        b == batch_sections[k + 1].sections[j]
    IN  /\ a.end_page = batch_sections[k].end_page
        /\ b.start_page = batch_sections[k + 1].start_page
        /\ SameLabel(a, b)

SeamPairs ==
    { t \in (1..Len(batch_sections)) \X (1..MaxCands) \X (1..MaxCands) :
        /\ t[1] < Len(batch_sections)
        /\ t[2] \in 1..Len(batch_sections[t[1]].sections)
        /\ t[3] \in 1..Len(batch_sections[t[1] + 1].sections)
        /\ SeamPair(t[1], t[2], t[3]) }

----------------------------------------------------------------------------
(* Properties of the detector *)

\* C1: whenever detect_sections returns a list for an N-page document, the
\* sections in order partition [1, N]: the first starts at 1, the last ends at
\* N, and each section ends one page before the next one starts.
C1_DetectPartitions ==
    (pc = "returned" /\ ~sections.is_none) => IsPartition(sections.list, total_pages)

C8_BatchClamp ==
    \A k \in 1..Len(batch_sections) :
        \A i \in 1..Len(batch_sections[k].sections) :
            /\ batch_sections[k].sections[i].start_page >= batch_sections[k].start_page
            /\ batch_sections[k].sections[i].end_page <= batch_sections[k].end_page

\* the last reply held a start_page before the batch and an end_page after it
C8_Witness ==
    /\ pc = "detect"
    /\ batch_sections # <<>>
    /\ LET last == batch_sections[Len(batch_sections)]
       IN  /\ Len(last.sections) = Len(response)
           /\ \E i \in 1..Len(response) : response[i].start_page < last.start_page
           /\ \E i \in 1..Len(response) : response[i].end_page > last.end_page

OnlySameLabelBetween(p, q) ==
    /\ p < q
    /\ \A r \in p..q : SameLabel(SortedCands[r], SortedCands[p])

C10_SinglePageOneSection ==
    (pc = "returned" /\ total_pages = 1 /\ ~sections.is_none) =>
        /\ Len(sections.list) = 1
        /\ sections.list[1].start_page = 1
        /\ sections.list[1].end_page = 1

----------------------------------------------------------------------------
(* Properties of the repair pass *)

SortedByStart(l) ==
    \A i \in 1..(Len(l) - 1) : l[i].start_page <= l[i + 1].start_page

\* C6: for any non-empty list and any page count N, the output of
\* _validate_sections is sorted by start_page, starts at 1, ends at N, and every
\* entry ends one page before the next one starts.
C6_RepairEstablishesInvariants ==
    pc = "repaired" =>
        /\ ~v_once.is_none
        /\ SortedByStart(v_once.list)
        /\ IsPartition(v_once.list, total_pages)

\* C7: for any non-empty list and any page count N, applying _validate_sections
\* to its own output gives that output again.
C7_RepairIdempotent ==
    pc = "repaired_twice" => v_twice = v_once

----------------------------------------------------------------------------
(* Properties of the validation gate *)

\* the mean of confs (0.0 for no sections) is at least t
MeanAtLeast(confs, t) ==
    IF confs = <<>> THEN 0 >= t ELSE SumSeq(confs) >= t * Len(confs)

\* C3: ValidationAgent.validate_and_combine writes the document to the final
\* store exactly when the structure check passes, the mean confidence is at
\* least CONFIDENCE_THRESHOLD and no section is below LOW_CONFIDENCE_THRESHOLD;
\* otherwise it writes it to the review queue; always exactly one of the two.
C3_GateDecision ==
    (pc = "done" /\ validator = "ValidationAgent") =>
        LET confs == Confidences(section_jsons)
            accept ==
                /\ ValidateDocumentStructure(section_jsons, document_metadata) = <<>>
                /\ MeanAtLeast(confs, CONFIDENCE_THRESHOLD)
                /\ \A i \in 1..Len(confs) : confs[i] >= LOW_CONFIDENCE_THRESHOLD
        IN  IF accept
            THEN Len(final_store) = 1 /\ review_queue = <<>>
            ELSE final_store = <<>> /\ Len(review_queue) = 1

\* a document of two sections was accepted, and so written to the final store only
C3_Witness ==
    /\ pc = "done"
    /\ validator = "ValidationAgent"
    /\ Len(section_jsons) = 2
    /\ Len(final_store) = 1
    /\ review_queue = <<>>

\* C4: ValidationAgentDocuPorter.validate_and_combine never writes to the final
\* store a document whose mean confidence is below CONFIDENCE_THRESHOLD or that
\* has a section below LOW_CONFIDENCE_THRESHOLD.
C4_LowConfidenceDiverted ==
    (/\ pc = "done"
     /\ validator = "ValidationAgentDocuPorter"
     /\ LET confs == Confidences(section_jsons)
        IN  \/ ~MeanAtLeast(confs, CONFIDENCE_THRESHOLD)
            \/ \E i \in 1..Len(confs) : confs[i] < LOW_CONFIDENCE_THRESHOLD)
    => final_store = <<>>

----------------------------------------------------------------------------
(* Properties of the pipeline *)

\* C5: when no section can be produced (no batch yields a candidate, or a batch
\* call or its parsing raises) detect_sections returns None, and
\* process_single_pdf then raises without any extract_section or
\* validate_and_combine call, so neither store receives the document.
C5_NoSectionsHardFailure ==
    /\ (pc = "merged" /\ CollectAllSections(batch_sections) = <<>>) => merged_sections.is_none
    /\ (pc = "returned" /\ (merged_sections.is_none \/ batch_idx < num_batches(total_pages)))
          => sections.is_none
    /\ sections.is_none =>
          /\ pc \in {"detect", "merged", "returned", "failed"}
          /\ extract_calls = 0
          /\ validate_calls = 0
          /\ final_store = <<>>
          /\ review_queue = <<>>

\* the pipeline raised on the None that detect_sections returned
C5_Witness ==
    /\ pc = "failed"
    /\ sections.is_none
    /\ batch_idx = num_batches(total_pages)
    /\ extract_calls = 0
    /\ validate_calls = 0

----------------------------------------------------------------------------
(* Readings of a detector run on reply texts *)

\* the candidates a reply text spells out, in order
CandidatesIn(text) ==
    LET IsObject(x) == x.kind = "object"
        objs == SelectSeq(text, IsObject)
    IN  [i \in 1..Len(objs) |-> objs[i].value[1]]

Unparseable(text) == ParseDetectionResponse(text).raises

IsFencedTrailingComma(text) ==
    /\ CandidatesIn(text) # <<>>
    /\ text = Fenced(TrailingCommaArrayText(CandidatesIn(text)))

\* the clean JSON array of the same candidates
CleanEquivalent(text) ==
    IF IsFencedTrailingComma(text) THEN ArrayText(CandidatesIn(text)) ELSE text

\* what detect_sections returns for an n-page document when batch b yields lists[b]
DetectResultFor(lists, n) ==
    DetectReturnValue(
        MergeBatchSections(
            [b \in 1..Len(lists) |->
                [batch_idx |-> b - 1, start_page |-> BatchStartPage(b - 1),
                 end_page |-> BatchEndPage(b - 1, n),
                 sections |-> ClampSections(lists[b], BatchStartPage(b - 1),
                                            BatchEndPage(b - 1, n))]]), n)

AllBatchesAnswered == Len(raw_responses) = num_batches(total_pages)

----------------------------------------------------------------------------
(* Properties of the reply parser inside detect_sections *)

\* C11: when every batch has been answered and some reply is empty or is not a
\* JSON array, detect_sections returns the sections built from the other
\* batches' candidates, the failing batch counting as zero candidates.
C11_UnparseableBatchSkipped ==
    (/\ pc = "returned"
     /\ AllBatchesAnswered
     /\ \E k \in 1..Len(raw_responses) : Unparseable(raw_responses[k]))
    => sections = DetectResultFor(
                      [k \in 1..Len(raw_responses) |->
                          IF Unparseable(raw_responses[k]) THEN <<>>
                          ELSE ParseDetectionResponse(raw_responses[k]).sections],
                      total_pages)

\* C12: when a batch's reply is a fenced JSON array with a trailing comma and
\* the other replies parse, detect_sections returns what it returns when that
\* reply is the clean array of the same candidates.
C12_TrailingCommaRepaired ==
    (/\ pc = "returned"
     /\ AllBatchesAnswered
     /\ \E k \in 1..Len(raw_responses) : IsFencedTrailingComma(raw_responses[k])
     /\ \A k \in 1..Len(raw_responses) :
           IsFencedTrailingComma(raw_responses[k]) \/ ~Unparseable(raw_responses[k]))
    => sections = DetectResultFor(
                      [k \in 1..Len(raw_responses) |->
                          ParseDetectionResponse(CleanEquivalent(raw_responses[k])).sections],
                      total_pages)

----------------------------------------------------------------------------
(* Properties of the review queue entry *)

\* the entry ValidationAgent.validate_and_combine wrote, if it queued the document
Queued == pc = "done" /\ validator = "ValidationAgent" /\ Len(review_queue) = 1

StructureErrors == ValidateDocumentStructure(section_jsons, document_metadata)

HasPart(reason, text) == \E i \in 1..Len(reason) : reason[i].text = text

ApplicableParts ==
    LET confs == Confidences(section_jsons)
        k == Cardinality({ i \in 1..Len(confs) : confs[i] < LOW_CONFIDENCE_THRESHOLD })
    IN  (IF ~MeanAtLeast(confs, LOW_CONFIDENCE_THRESHOLD)
         THEN <<ReasonPart("Very low confidence", 0)>>
         ELSE IF ~MeanAtLeast(confs, CONFIDENCE_THRESHOLD)
              THEN <<ReasonPart("Low confidence", 0)>>
              ELSE <<>>)
        \o (IF StructureErrors # <<>>
            THEN <<ReasonPart("Structure validation failed", 0)>> ELSE <<>>)
        \o (IF k > 0
            THEN <<ReasonPart("section(s) with very low confidence", k)>> ELSE <<>>)

----------------------------------------------------------------------------
(* Properties of the extraction stage *)

\* the extraction stage has returned its list
Extracted == pc \in {"review", "validate"} /\ ~sections.is_none

SectionIdx == 1..Len(sections.list)

\* every call for section i raised, and the stage went on without it
GivenUp(i) ==
    /\ ext_log[i] # <<>>
    /\ \A k \in 1..Len(ext_log[i]) : ext_log[i][k] = "raised"

\* positions of section_jsons that hold an entry for section i
EntriesOf(i) ==
    { k \in 1..Len(section_jsons) :
        /\ section_jsons[k].section_name = sections.list[i].section_name
        /\ section_jsons[k].page_range
             = <<sections.list[i].start_page, sections.list[i].end_page>> }

\* C15: a section whose extraction failed on every attempt has an entry in the
\* list handed on to validate_and_combine, with empty data and confidence 0.
C15_FailedSectionRecorded ==
    Extracted =>
        \A i \in SectionIdx :
            GivenUp(i) =>
                \E k \in EntriesOf(i) :
                    section_jsons[k].confidence = 0 /\ section_jsons[k].data = ""

\* C16: in both modes, when the extraction stage returns, every detected
\* section has been handed to extract_section, whatever the calls for other
\* sections did, and every section whose call returned has exactly one entry in
\* the returned list.
C16_SiblingsStillExtracted ==
    Extracted =>
        \A i \in SectionIdx :
            /\ ext_log[i] # <<>>
            /\ ~GivenUp(i) => Cardinality(EntriesOf(i)) = 1

\* the first of two sections was given up and the second is in the returned list
C16_Witness ==
    /\ Extracted
    /\ Len(sections.list) = 2
    /\ GivenUp(1)
    /\ Cardinality(EntriesOf(2)) = 1

\* C17: in both modes no section is attempted more than 1 + 3 times (so the
\* stage ends), and a section is given up only after its first attempt and 3
\* retries have all raised.
C17_RetriedBeforeGivenUp ==
    (pc \in {"extract", "review", "validate"} /\ ~sections.is_none) =>
        \A i \in SectionIdx :
            /\ Len(ext_log[i]) <= 1 + RETRY_COUNTER
            /\ (Extracted /\ GivenUp(i)) => Len(ext_log[i]) = 1 + RETRY_COUNTER

----------------------------------------------------------------------------
(* Order of the stages of process_single_pdf *)

\* C18: the merge step runs only when every batch call has returned, and no
\* batch call returns after it; extraction starts, in either mode, only from
\* the list the merge of all batches produced, no extract_section call is made
\* before that, and the list stays as it is from then on.
C18_DetectMergeExtractOrder ==
    [][ /\ (pc # "merged" /\ pc' = "merged") =>
              /\ batch_idx = num_batches(total_pages)
              /\ Len(batch_sections) = num_batches(total_pages)
              /\ extract_calls = 0
        /\ pc \notin {"detect"} => batch_idx' = batch_idx
        /\ (pc # "extract" /\ pc' = "extract") =>
              /\ pc = "returned"
              /\ Len(batch_sections) = num_batches(total_pages)
              /\ merged_sections = MergeBatchSections(batch_sections)
              /\ ~sections.is_none
              /\ sections = merged_sections
              /\ extract_calls = 0
        /\ extract_calls' # extract_calls => (pc = "extract" /\ sections' = sections)
        /\ pc \in {"extract", "review", "validate", "done"} => sections' = sections
      ]_vars

\* a two-batch document is being extracted in parallel mode and a call was made
C18_Witness ==
    /\ pc = "extract"
    /\ parallel
    /\ num_batches(total_pages) = 2
    /\ extract_calls = 1

----------------------------------------------------------------------------
(* Properties of invoke_with_retry *)

\* C19: for any max_retries, invoke_with_retry makes at most max_retries
\* attempts; when it returns, the last attempt is the only successful one and
\* what it returns is that attempt's response, never nothing; when it raises,
\* all max_retries attempts failed and it raises the error of the last one.
C19_RetryContract ==
    /\ Len(invoke_log) <= max_retries
    /\ pc = "invoked" =>
          /\ invoke_result.kind \in {"returned", "raised"}
          /\ invoke_result.kind = "returned" =>
                /\ invoke_result.value \in Responses
                /\ invoke_log # <<>>
                /\ invoke_log[Len(invoke_log)] = "ok"
                /\ \A k \in 1..(Len(invoke_log) - 1) : invoke_log[k] \in AttemptErrors
          /\ invoke_result.kind = "raised" =>
                /\ Len(invoke_log) = max_retries
                /\ \A k \in 1..Len(invoke_log) : invoke_log[k] \in AttemptErrors
                /\ invoke_result.value = invoke_log[Len(invoke_log)]

----------------------------------------------------------------------------
(* Properties of process_batch *)

BatchDone == pc = "batch_done"

CompletedIds == { results.completed[k] : k \in 1..Len(results.completed) }
FailedIds == { results.failed[k].document_id : k \in 1..Len(results.failed) }
ProcessedIds == { Stem(remaining[k]) : k \in 1..Len(remaining) }

\* C20: every document of remaining is processed whatever the
\* earlier ones did; every processed document ID is in exactly one of
\* results['completed'] and results['failed'], there with the error string; and
\* completed_count + failed_count is the number of documents processed.
C20_EachIdInExactlyOneList ==
    BatchDone =>
        /\ Len(batch_log) = Len(remaining)
        /\ \A k \in 1..Len(remaining) : batch_log[k].document_id = Stem(remaining[k])
        /\ \A id \in ProcessedIds : (id \in CompletedIds) # (id \in FailedIds)
        /\ \A k \in 1..Len(results.failed) : results.failed[k].error \in PipelineErrors
        /\ results.counts = <<Len(results.completed), Len(results.failed)>>
        /\ results.counts[1] + results.counts[2] = Len(remaining)

----------------------------------------------------------------------------
(* Properties of calculate_confidence_score *)

\* a <= b for two confidences
FractionLeq(a, b) == a.num * b.den <= b.num * a.den

\* C21: a value obtained from another only by emptying fields or items never
\* scores higher than it, and every score lies between 0 and 1
C21_EmptierNeverScoresHigher ==
    pc = "scored" =>
        /\ FractionLeq(emptier_confidence, fuller_confidence)
        /\ FractionLeq(Fraction(0, 1), emptier_confidence)
        /\ FractionLeq(emptier_confidence, Fraction(100, 1))
        /\ FractionLeq(Fraction(0, 1), fuller_confidence)
        /\ FractionLeq(fuller_confidence, Fraction(100, 1))

\* an object lost all its fields and scores strictly lower for it
C21_Witness ==
    /\ pc = "scored"
    /\ fuller.type = "dict"
    /\ emptier = Dict(<<>>)
    /\ fuller # emptier
    /\ ~FractionLeq(fuller_confidence, emptier_confidence)

----------------------------------------------------------------------------
(* Properties of _merge_batch_sections *)

\* the number m with m = (a + b) / 2
MeanOf(a, b) == CHOOSE m \in 0..100 : 2 * m = a + b

\* a confidence, 0.8 standing in for a missing one
ConfidenceOr80(sec) == IF sec.confidence = NoConfidence THEN 80 ELSE sec.confidence

\* the walk over cands, a non-empty list: st[k] is the output and the
\* accumulator once the first k candidates are consumed
WalkOver(cands) ==
    LET st[k \in 1..Len(cands)] ==
            IF k = 1
            THEN [out |-> <<>>, acc |-> cands[1]]
            ELSE LET acc == st[k - 1].acc
                     nxt == cands[k]
                 IN  IF /\ nxt.section_name = acc.section_name
                        /\ nxt.section_type = acc.section_type
                        /\ nxt.start_page <= acc.end_page + 1
                     THEN [out |-> st[k - 1].out,
                           acc |-> [section_name |-> acc.section_name,
                                    section_type |-> acc.section_type,
                                    start_page |-> acc.start_page,
                                    end_page |-> IF nxt.end_page > acc.end_page
                                                 THEN nxt.end_page ELSE acc.end_page,
                                    confidence |-> MeanOf(ConfidenceOr80(acc),
                                                          ConfidenceOr80(nxt))]]
                     ELSE [out |-> Append(st[k - 1].out, acc), acc |-> nxt]
    IN  Append(st[Len(cands)].out, st[Len(cands)].acc)

----------------------------------------------------------------------------
(* Properties of the batch plan of _detect_multi_batch *)

\* the least k with k * b >= n
CeilDiv(n, b) == CHOOSE k \in 0..n : k * b >= n /\ (k - 1) * b < n

\* C23: the calls _detect_multi_batch has issued are the first ones of the
\* plan, the i-th over pages (i-1)*B + 1 .. min(i*B, N); once the loop is
\* through there are exactly ceil(N/B) of them, contiguous, disjoint, of at
\* most B pages each and covering 1..N, a single one when N <= B
C23_BatchPlan ==
    LET B == MAX_IMAGES_PER_CALL
        N == total_pages
        K == CeilDiv(N, B)
        calls == batch_sections
    IN  /\ Len(calls) <= K
        /\ \A i \in 1..Len(calls) :
              /\ calls[i].start_page = (i - 1) * B + 1
              /\ calls[i].end_page = IF i * B <= N THEN i * B ELSE N
        /\ pc = "merged" =>
              /\ Len(calls) = K
              /\ calls[1].start_page = 1
              /\ calls[K].end_page = N
              /\ \A i \in 1..K :
                    /\ calls[i].start_page <= calls[i].end_page
                    /\ calls[i].end_page - calls[i].start_page + 1 <= B
              /\ \A i \in 1..(K - 1) : calls[i + 1].start_page = calls[i].end_page + 1
              /\ N <= B => K = 1

\* a document of exactly two full batches went through the loop
C23_Witness ==
    /\ pc = "merged"
    /\ total_pages = 2 * MAX_IMAGES_PER_CALL
    /\ Len(batch_sections) = 2
    /\ batch_sections[2].start_page = MAX_IMAGES_PER_CALL + 1
    /\ batch_sections[2].end_page = total_pages

----------------------------------------------------------------------------
(* Properties of the page numbers detect_sections returns *)

\* every candidate of every reply has start_page <= end_page
RawCandidatesOrdered ==
    \A b \in 1..Len(raw_responses) :
        LET cands == CandidatesIn(raw_responses[b])
        IN  \A i \in 1..Len(cands) : cands[i].start_page <= cands[i].end_page

\* C24: when every raw candidate has start_page <= end_page, every section
\* detect_sections returns has 1 <= start_page <= end_page <= N
C24_ReturnedPagesInRange ==
    (pc = "returned" /\ ~sections.is_none /\ RawCandidatesOrdered) =>
        \A i \in 1..Len(sections.list) :
            /\ 1 <= sections.list[i].start_page
            /\ sections.list[i].start_page <= sections.list[i].end_page
            /\ sections.list[i].end_page <= total_pages

----------------------------------------------------------------------------
(* Properties of the order of the extracted sections *)

\* C25: whatever the order in which the workers complete, the list
\* _extract_sections_parallel returns is in the order of the detected
\* sections, ascending start_page, as the sequential version returns it
C25_ParallelKeepsDetectedOrder ==
    (pc = "review" /\ parallel) =>
        \A i \in 1..Len(section_jsons) : \A j \in 1..Len(section_jsons) :
            i < j => section_jsons[i].page_range[1] < section_jsons[j].page_range[1]

----------------------------------------------------------------------------
(* Properties of the reviewer's decision *)

\* the queued document has been approved or rejected
Decided == review_queue # <<>> /\ QueueFile.status \in {"approved", "rejected"}

\* C26: once approve_document or reject_document has set the status of a
\* queued document, no later call of either changes it, and a rejected
\* document is not written to the final store
C26_DecisionIsFinal ==
    [][Decided =>
          /\ review_queue'[Len(review_queue')].status = QueueFile.status
          /\ QueueFile.status = "rejected" => final_store' = final_store]_vars

\* C30: every document in the final store, written there by
\* validate_and_combine or by approve_document, has validation_status approved
C30_FinalDocumentsApproved ==
    \A i \in 1..Len(final_store) : final_store[i].validation_status = "approved"

----------------------------------------------------------------------------
(* Properties of the disposition of a partly extracted document *)

\* C27: when the extraction of a detected section failed for good,
\* validate_and_combine does not write the document to the final store
C27_FailedSectionBlocksAcceptance ==
    (pc = "done" /\ \E i \in SectionIdx : GivenUp(i)) => final_store = <<>>

----------------------------------------------------------------------------
(* Properties of the per-section store *)

\* C28: once the extraction stage has returned, the per-section store holds
\* one artifact per extracted section, each section's own result: no result
\* was replaced by that of another section
C28_OneArtifactPerSection ==
    Extracted =>
        /\ Cardinality(DOMAIN section_store) = Len(section_jsons)
        /\ \A k \in 1..Len(section_jsons) :
              /\ SafeName(section_jsons[k].section_name) \in DOMAIN section_store
              /\ section_store[SafeName(section_jsons[k].section_name)].data = section_jsons[k]

----------------------------------------------------------------------------
(* Properties of the persisted progress *)

\* the input names no two files of one stem
DistinctStems ==
    \A i \in 1..Len(pdf_paths) : \A j \in 1..Len(pdf_paths) :
        i # j => Stem(pdf_paths[i]) # Stem(pdf_paths[j])

\* C29: after every update_progress call of process_batch the persisted
\* completed and failed lists share no document ID and the failed list holds
\* no ID twice
C29_ProgressListsConsistent ==
    (pc \in {"batch_loop", "batch_done"} /\ batch_log # <<>>) =>
        /\ \A i \in 1..Len(progress_file.failed) :
              progress_file.failed[i] \notin progress_file.completed
        /\ \A i \in 1..Len(progress_file.failed) : \A j \in 1..Len(progress_file.failed) :
              i # j => progress_file.failed[i] # progress_file.failed[j]

====
